---- MODULE Spec2Model ----
(***************************************************************************)
(* A model of the GitHub MCP agent (src/github_mcp_agent.py): the request  *)
(* layer with its rate-limit handling, the paginating issue fetcher, the   *)
(* prioritization engine, the recommendation filter, the issue analyzer    *)
(* and the command-line entry point that drives them.                      *)
(*                                                                         *)
(* The specifications share the variables:                                 *)
(*   ReqSpec        one call of _make_request (with _check_rate_limits),   *)
(*   FetchSpec      one call of get_issues,                                *)
(*   FairFetchSpec  that call when none of its page requests hangs,        *)
(*   Spec           one run of main().                                     *)
(* Time is counted in whole seconds.  Scores are floats, rounded as the    *)
(* source rounds them.                                                     *)
(***************************************************************************)
EXTENDS Integers, Sequences, FiniteSets, TLC

VARIABLES
    \* ---- request layer (_make_request, _check_rate_limits)
    rq_pc,        \* "idle" | "check" | "send" | "backoff" | "done"
    rq_method,    \* the method argument of the call
    now,          \* time.time(), in seconds
    checks,       \* number of rate-limit queries made by the call
    sends,        \* number of times the request itself was sent
    n403,         \* number of 403 "rate limit exceeded" responses received
    lastCheck,    \* what the last rate-limit query reported
    sentAt,       \* the time of the last send
    lastResp,     \* the kind of the last response to the request
    resetHeader,  \* X-RateLimit-Reset of the last 403 rate-limit response,
                  \* as the server sent it
    rq_result,    \* "none" | "json" | "empty": what the call returned
    rq_fault,     \* "none" | "ValueError": what the call raised
    \* ---- issue fetcher (get_issues)
    f_pc,         \* "idle" | "loop" | "exit" | "returned" | "raised"
    limit,        \* the limit argument
    per_page,     \* min(100, limit)
    page,         \* the page number the next request asks for
    issues,       \* the issues accumulated so far
    requested,    \* the page numbers requested so far, in order
    lastBatch,    \* the outcome of the last page request
    pages,        \* the batches the page requests returned, in order
    returned,     \* the value get_issues returned
    f_fault,      \* "none" | "ValueError": what get_issues raised
    \* ---- one run of main()
    m_pc,         \* "start" | "loaded" | "connected" | "ready" | "finished"
                  \* | "exited" (sys.exit(1)) | "crashed" (uncaught exception)
    args,         \* the parsed command line
    utcOffset,    \* local time less UTC in the process's time zone, in hours
    cfgFile,      \* the content of mcp_config.json
    config,       \* main's local variable config
    repo,         \* args.repo after the configuration was read
    fault,        \* the uncaught exception, and the function that raised it
    fetched,      \* what get_issues returned to main
    prioritized,  \* what prioritize_issues returned
    prioCfg,      \* the configuration prioritize_issues read
    recommended,  \* the selection of the recommend action
    assigned,     \* what get_assigned_issues returned
    request,      \* what the server answered to analyze_issue's requests
    analysis      \* what analyze_issue returned

rqVars == <<rq_pc, rq_method, now, checks, sends, n403, lastCheck, sentAt,
            lastResp, resetHeader, rq_result, rq_fault>>

fVars == <<f_pc, limit, per_page, page, issues, requested, lastBatch,
           pages, returned, f_fault>>

mVars == <<m_pc, args, utcOffset, cfgFile, config, repo, fault, fetched, prioritized,
           prioCfg, recommended, assigned, request, analysis>>

vars == <<rqVars, fVars, mVars>>

\* What an action of one component leaves alone.
exceptReq == <<fVars, mVars>>
exceptFetch == <<rqVars, mVars>>
exceptMain == <<rqVars, fVars>>

Max(a, b) == IF a >= b THEN a ELSE b
Min(a, b) == IF a <= b THEN a ELSE b

(***************************************************************************)
(* Bounds of the model.                                                    *)
(***************************************************************************)
Max403 == 2        \* 403 rate-limit responses a server gives to one call
MaxAhead == 5      \* how far ahead of the clock a reported reset time lies
MaxLatency == 1    \* seconds a network call or an oversleeping sleep takes
MaxSmallLimit == 3 \* the small values of limit: 0 .. MaxSmallLimit
MaxIssues == 3     \* issues in the list a run of main() fetches
MaxComments == 2   \* comments on the issue analyze_issue fetches
MaxMarkers == 6    \* fence markers in the texts complexity is compared on

(***************************************************************************)
(* The request layer.                                                      *)
(***************************************************************************)
\* A field of a JSON object or a header that may be missing.
Absent == [has |-> FALSE, val |-> 0]
Field(v) == [has |-> TRUE, val |-> v]
Methods == {"GET", "POST", "PATCH", "DELETE"}
SupportedMethods == {"GET", "POST", "PATCH"}

\* core.get('remaining', 1) and core.get('reset', 0)
GetOr(f, default) == IF f.has THEN f.val ELSE default

\* Keep a small buffer: remaining <= 5
LowRemaining == 5

\* The wait without its margin of one second.
WaitTimeNoMargin(reset, t) == Max(reset - t, 0)

\* wait_time = max(reset_time - time.time(), 0) + 1
WaitTime(reset, t) == Max(reset - t, 0) + 1

NoCheck == [kind |-> "none", at |-> 0, remaining |-> 0, reset |-> 0]

\* Seconds a network call takes, or a sleep oversleeps.
Latencies == {0, MaxLatency}
RemainingValues == {Absent} \cup {Field(v) : v \in {3, 5, 6}}
ResetValues(t) == {Absent} \cup {Field(t + d) : d \in {-1, MaxAhead}}

\* The X-RateLimit-Reset header of a response: missing, the decimal digits
\* of a number, or any other text.
NoHeader == [kind |-> "absent", val |-> 0]
NumberHeader(v) == [kind |-> "number", val |-> v]
TextHeader == [kind |-> "text", val |-> 0]
HeaderValues(t) ==
    {NoHeader, TextHeader} \cup {NumberHeader(t + d) : d \in {-1, MaxAhead}}

\* int(response.headers.get('X-RateLimit-Reset', 0)) raises ValueError on a
\* header that is not a number.
IntRaises(hdr) == hdr.kind = "text"
IntOf(hdr) == IF hdr.kind = "number" THEN hdr.val ELSE 0

\* No run of main() in progress.
IdleMain ==
    /\ m_pc = "idle"
    /\ args = << >>
    /\ utcOffset = 0
    /\ cfgFile = "missing"
    /\ config = "unbound"
    /\ repo = "none"
    /\ fault = "none"
    /\ fetched = << >>
    /\ prioritized = << >>
    /\ prioCfg = "none"
    /\ recommended = << >>
    /\ assigned = << >>
    /\ request = "none"
    /\ analysis = "none"

\* The outcome of a page request: the request raised, or it returned
\*   failed  the {} of a request the request layer gave up on,
\*   list    a JSON array of len issues,
\*   object  a JSON object of len keys.
NoBatch == [kind |-> "none", len |-> 0]
BatchOutcome(kind, n) == [kind |-> kind, len |-> n]

IdleFetch ==
    /\ f_pc = "idle"
    /\ limit = 0
    /\ per_page = 0
    /\ page = 0
    /\ issues = << >>
    /\ requested = << >>
    /\ lastBatch = NoBatch
    /\ pages = << >>
    /\ returned = << >>
    /\ f_fault = "none"

IdleReq ==
    /\ rq_pc = "idle"
    /\ rq_method = "GET"
    /\ now = 0
    /\ checks = 0
    /\ sends = 0
    /\ n403 = 0
    /\ lastCheck = NoCheck
    /\ sentAt = -1
    /\ lastResp = "none"
    /\ resetHeader = NoHeader
    /\ rq_result = "none"
    /\ rq_fault = "none"

InitReq == IdleReq /\ IdleFetch /\ IdleMain

\* A caller enters _make_request(endpoint, method, data).
MakeRequest ==
    /\ rq_pc = "idle"
    /\ \E m \in Methods : rq_method' = m
    /\ rq_pc' = "check"
    /\ UNCHANGED <<now, checks, sends, n403, lastCheck, sentAt, lastResp,
                   resetHeader, rq_result, rq_fault>>
    /\ UNCHANGED exceptReq

\* _check_rate_limits: the query fails (any exception is caught), answers
\* with a status other than 200, or reports remaining and reset; on
\* remaining <= 5 it sleeps max(reset - now, 0) + 1 seconds.
CheckRateLimits ==
    /\ rq_pc = "check"
    /\ checks' = checks + 1
    /\ rq_pc' = "send"
    /\ \E lat \in Latencies :
         LET t == now + lat IN
         \/ /\ \E k \in {"exception", "not200"} :
                 lastCheck' = [kind |-> k, at |-> t, remaining |-> 0,
                               reset |-> 0]
            /\ now' = t
         \/ \E rem \in RemainingValues, rst \in ResetValues(t),
               over \in Latencies :
              LET remaining == GetOr(rem, 1)
                  reset_time == GetOr(rst, 0)
              IN /\ lastCheck' = [kind |-> "ok", at |-> t,
                                  remaining |-> remaining,
                                  reset |-> reset_time]
                 /\ now' = IF remaining <= LowRemaining
                           THEN t + WaitTime(reset_time, t) + over
                           ELSE t
    /\ UNCHANGED <<rq_method, sends, n403, sentAt, lastResp, resetHeader,
                   rq_result, rq_fault>>
    /\ UNCHANGED exceptReq

\* raise ValueError(f"Unsupported HTTP method: {method}"): the except
\* clause catches requests.exceptions.RequestException only.
RaiseUnsupported ==
    /\ rq_pc = "send"
    /\ rq_method \notin SupportedMethods
    /\ rq_fault' = "ValueError"
    /\ rq_pc' = "done"
    /\ UNCHANGED <<rq_method, now, checks, sends, n403, lastCheck, sentAt,
                   lastResp, resetHeader, rq_result>>
    /\ UNCHANGED exceptReq

\* What the caller gets for a response that is not a 403 rate-limit one.
\*   transport  requests raises a RequestException       -> {}
\*   httpError  raise_for_status() raises HTTPError      -> {}
\*   noContent  a success with an empty body             -> {}
\*   ok         a success with a JSON body               -> response.json()
Outcome(resp) == IF resp = "ok" THEN "json" ELSE "empty"

\* requests.get / post / patch, then the handling of the response.  On a
\* 403 "rate limit exceeded" response the reset header is converted with
\* int(): a header that is not a number raises ValueError, which the except
\* clause (RequestException only) does not catch.
SendRequest ==
    /\ rq_pc = "send"
    /\ rq_method \in SupportedMethods
    /\ sends' = sends + 1
    /\ \E lat \in Latencies :
         /\ sentAt' = now
         /\ now' = now + lat
         /\ \/ /\ n403 < Max403
               /\ \E hdr \in HeaderValues(now + lat) :
                    /\ resetHeader' = hdr
                    /\ IF IntRaises(hdr)
                       THEN rq_fault' = "ValueError" /\ rq_pc' = "done"
                       ELSE rq_pc' = "backoff" /\ UNCHANGED rq_fault
               /\ lastResp' = "rl403"
               /\ n403' = n403 + 1
               /\ UNCHANGED rq_result
            \/ /\ \E resp \in {"transport", "httpError", "noContent", "ok"} :
                    /\ lastResp' = resp
                    /\ rq_result' = Outcome(resp)
               /\ rq_pc' = "done"
               /\ UNCHANGED <<n403, resetHeader, rq_fault>>
    /\ UNCHANGED <<rq_method, checks, lastCheck>>
    /\ UNCHANGED exceptReq

\* time.sleep(wait_time); return self._make_request(endpoint, method, data)
Backoff ==
    /\ rq_pc = "backoff"
    /\ \E over \in Latencies :
         now' = now + WaitTime(IntOf(resetHeader), now) + over
    /\ rq_pc' = "check"
    /\ UNCHANGED <<rq_method, checks, sends, n403, lastCheck, sentAt,
                   lastResp, resetHeader, rq_result, rq_fault>>
    /\ UNCHANGED exceptReq

NextReq ==
    \/ MakeRequest
    \/ CheckRateLimits
    \/ RaiseUnsupported
    \/ SendRequest
    \/ Backoff

ReqSpec == InitReq /\ [][NextReq]_vars

(***************************************************************************)
(* Claims about the request layer, checked under ReqSpec.                  *)
(***************************************************************************)

\* C2 as stated: a 403 "rate limit exceeded" response is retried exactly
\* once, so one call of _make_request sends the request at most twice.
C2_SendsAtMostTwice == sends <= 2

\* What the code does instead: every 403 "rate limit exceeded" response
\* whose reset header is missing or a number is followed by a sleep and a
\* further call of _make_request, with no count of the calls made so far;
\* the number of sends is the number of such responses plus one, and the
\* call returns only on a response of another kind.
RetriesAfterEvery403 ==
    /\ sends <= n403 + 1
    /\ rq_pc = "backoff"
          => sends = n403 /\ lastResp = "rl403" /\ ~IntRaises(resetHeader)
    /\ (rq_pc = "done" /\ rq_fault = "none")
          => sends = n403 + 1 /\ lastResp # "rl403"
    /\ (rq_pc = "done" /\ lastResp = "rl403")
          => /\ IntRaises(resetHeader) /\ rq_fault = "ValueError"
             /\ rq_result = "none" /\ sends = n403

\* C3: every send is preceded by a rate-limit query of its own, and when
\* that query reported remaining <= 5 the request is sent no earlier than
\* the reported reset time plus one second.
C3_SleepsBeforeSend ==
    /\ checks = IF rq_pc = "send"
                   \/ (rq_pc = "done" /\ rq_method \notin SupportedMethods)
                THEN sends + 1 ELSE sends
    /\ (lastCheck.kind = "ok" /\ lastCheck.remaining <= 5)
          => /\ rq_pc = "send" => now >= lastCheck.reset + 1
             /\ (rq_pc \in {"backoff", "done"} /\ sends > 0)
                   => sentAt >= lastCheck.reset + 1

\* remaining = 3 and reset = now + 5: the request went out 6 s later.
C3_Witness ==
    /\ rq_pc = "done" /\ sends = 1
    /\ lastCheck = [kind |-> "ok", at |-> 0, remaining |-> 3, reset |-> 5]
    /\ sentAt = 6

\* C4: whatever the endpoint, method and body, a call that fails returns
\* the empty mapping and propagates no fault; its only outcomes are a JSON
\* value or the empty mapping.  Stated here for the methods the request
\* layer supports, GET, POST and PATCH.
C4_NeverRaises ==
    (rq_pc = "done" /\ rq_method \in SupportedMethods)
        => rq_fault = "none" /\ rq_result \in {"json", "empty"}

\* What does hold: the call raises, and then ValueError, exactly when the
\* method is not GET, POST or PATCH (after the rate-limit query, without
\* sending) or the last response was a 403 rate-limit one whose reset header
\* is not a number; otherwise it returns the empty mapping on an HTTP error
\* status or a transport failure and a JSON value only on a success with a
\* body.
RaisesOnBadMethodOrHeaderOnly ==
    rq_pc = "done" =>
        IF rq_method \notin SupportedMethods
        THEN /\ rq_fault = "ValueError" /\ rq_result = "none"
             /\ sends = 0 /\ checks = 1
        ELSE IF lastResp = "rl403"
        THEN /\ rq_fault = "ValueError" /\ rq_result = "none"
             /\ IntRaises(resetHeader)
        ELSE /\ rq_fault = "none"
             /\ rq_result \in {"json", "empty"}
             /\ lastResp \in {"transport", "httpError"} => rq_result = "empty"
             /\ rq_result = "json" => lastResp = "ok"

(***************************************************************************)
(* The issue fetcher: get_issues(state, sort, direction, limit).           *)
(***************************************************************************)
PerPageCap == 100

\* per_page = min(100, limit)
PerPage(lim) == Min(PerPageCap, lim)

\* issues[:limit]: the first limit elements, and for a negative limit all
\* but the last -limit.
Truncate(seq, lim) ==
    IF lim >= 0 THEN SubSeq(seq, 1, Min(lim, Len(seq)))
    ELSE SubSeq(seq, 1, Max(Len(seq) + lim, 0))

\* The limits tried: the small ones, and those around one, two and three
\* full pages of 100.
Limits ==
    (0 .. MaxSmallLimit)
    \cup {PerPageCap - 1, PerPageCap, PerPageCap + 1}
    \cup {2 * PerPageCap, 2 * PerPageCap + 1, 3 * PerPageCap}

\* The n issues a server returns for page p, in the order it returns them.
Batch(p, n) == [i \in 1 .. n |-> [page |-> p, index |-> i, key |-> FALSE]]

\* The n keys of the JSON object a server returns for page p, in the order
\* of the object: what extend and len make of a dict.
KeysOf(p, n) == [i \in 1 .. n |-> [page |-> p, index |-> i, key |-> TRUE]]

\* How many issues a page may hold: none, one, one short of per_page,
\* per_page, or (a server ignoring per_page) one more.
BatchLens(pp) == {n \in {0, 1, pp - 1, pp, pp + 1} : n >= 0}

\* How many keys an object sent in place of the list may hold: none, or the
\* message and documentation_url of an error report.
ObjectLens == {0, 2}

\* What a page request may come to.
BatchOutcomes(pp) ==
    {BatchOutcome("raised", 0), BatchOutcome("failed", 0)}
    \cup {BatchOutcome("list", n) : n \in BatchLens(pp)}
    \cup {BatchOutcome("object", n) : n \in ObjectLens}

\* The items of the batch the request for page p returned.
ItemsOf(p, out) ==
    IF out.kind = "object" THEN KeysOf(p, out.len) ELSE Batch(p, out.len)

\* The loop without its break on a short page.
BreaksOnEmptyOnly(n, pp) == n = 0

\* if not batch: break   (an empty list, or the {} of a failed request)
\* if len(batch) < per_page: break
Breaks(n, pp) == n = 0 \/ n < pp

\* issues.extend(batch)
Extend(acc, batch) == acc \o batch

InitFetch == IdleReq /\ IdleFetch /\ IdleMain

\* A caller enters get_issues(limit = lim).
GetIssues ==
    /\ f_pc = "idle"
    /\ \E lim \in Limits :
         /\ limit' = lim
         /\ per_page' = PerPage(lim)
    /\ issues' = << >>
    /\ page' = 1
    /\ f_pc' = "loop"
    /\ UNCHANGED <<requested, lastBatch, pages, returned, f_fault>>
    /\ UNCHANGED exceptFetch

\* One iteration of the while loop: request the page, stop on an empty or
\* failed batch, accumulate, stop on a short page, else go to the next page.
\* A fault the request layer raises is not caught here: it ends the call.
FetchPage ==
    /\ f_pc = "loop"
    /\ Len(issues) < limit
    /\ requested' = Append(requested, page)
    /\ \E out \in BatchOutcomes(per_page) :
         /\ lastBatch' = out
         /\ IF out.kind = "raised"
            THEN /\ f_pc' = "raised"
                 /\ f_fault' = "ValueError"
                 /\ UNCHANGED <<pages, issues, page>>
            ELSE /\ pages' = Append(pages, ItemsOf(page, out))
                 /\ issues' = Extend(issues, ItemsOf(page, out))
                 /\ IF Breaks(out.len, per_page)
                    THEN f_pc' = "exit" /\ UNCHANGED page
                    ELSE f_pc' = "loop" /\ page' = page + 1
                 /\ UNCHANGED f_fault
    /\ UNCHANGED <<limit, per_page, returned>>
    /\ UNCHANGED exceptFetch

\* return issues[:limit], after a break or when the loop condition fails.
ReturnIssues ==
    /\ \/ f_pc = "exit"
       \/ f_pc = "loop" /\ ~(Len(issues) < limit)
    /\ returned' = Truncate(issues, limit)
    /\ f_pc' = "returned"
    /\ UNCHANGED <<limit, per_page, page, issues, requested, lastBatch,
                   pages, f_fault>>
    /\ UNCHANGED exceptFetch

NextFetch ==
    \/ GetIssues
    \/ FetchPage
    \/ ReturnIssues

FetchSpec == InitFetch /\ [][NextFetch]_vars

\* get_issues runs on one thread with nothing to wait for but its page
\* requests: as long as none of them hangs, its next step is taken.
FairFetchSpec == FetchSpec /\ WF_vars(NextFetch)

(***************************************************************************)
(* Claims about the issue fetcher, checked under FetchSpec.                *)
(***************************************************************************)

\* get_issues has stopped requesting pages.
Stopped == f_pc \in {"exit", "returned", "raised"}

\* The count has reached limit, or the last page returned was short.
LimitReachedOrShortPage ==
    \/ Len(issues) >= limit
    \/ pages # << >> /\ Len(pages[Len(pages)]) < per_page

\* C1: for every limit and every server behaviour, get_issues returns at
\* most limit issues; it stops requesting pages only when the accumulated
\* count has reached limit or the last page returned was shorter than
\* per_page = min(100, limit); while neither holds the next request asks
\* for the next page number.
C1_AtMostLimitAndPaginates ==
    /\ f_pc # "idle" => per_page = Min(100, limit)
    /\ f_pc = "returned" => Len(returned) <= limit
    /\ Stopped => LimitReachedOrShortPage
    /\ \A i \in 1 .. Len(requested) : requested[i] = i
    /\ (f_pc = "loop" /\ Len(issues) < limit)
         => /\ page = Len(requested) + 1
            /\ ENABLED FetchPage

\* What does hold: the same, but that a page request that raises ends the
\* call at once, whatever the count and the length of the last page.
PaginatesUntilRaised ==
    /\ f_pc # "idle" => per_page = Min(100, limit)
    /\ f_pc = "returned" => Len(returned) <= limit /\ f_fault = "none"
    /\ Stopped => LimitReachedOrShortPage \/ f_pc = "raised"
    /\ f_pc = "raised" <=> lastBatch.kind = "raised"
    /\ f_pc = "raised" <=> f_fault # "none"
    /\ \A i \in 1 .. Len(requested) : requested[i] = i
    /\ (f_pc = "loop" /\ Len(issues) < limit)
         => /\ page = Len(requested) + 1
            /\ ENABLED FetchPage

\* The page requests made so far are within the bound of the claim, the
\* smallest whole number that is at least limit / min(100, limit), and
\* each asked for a larger page number than the one before it.
RequestsWithinBound ==
    limit > 0 =>
        /\ per_page = Min(PerPageCap, limit)
        /\ Len(requested) <= (limit + per_page - 1) \div per_page
        /\ \A i \in 1 .. Len(requested) - 1 : requested[i] < requested[i + 1]

\* C11: get_issues terminates for every positive limit, also against a
\* server that returns exactly per_page items on every page: as long as
\* each page request returns, the call reaches its return (a page request
\* that raises instead of returning ends the call at once), and at every
\* moment it has made at most ceil(limit / min(100, limit)) page requests,
\* each with a strictly larger page number than the previous one.
C11_TerminatesWithinBound ==
    /\ []RequestsWithinBound
    /\ <>(f_pc = "returned" \/ f_pc = "raised")
    /\ [](f_pc = "raised" => lastBatch.kind = "raised")

\* limit 201 against a server whose every page holds exactly per_page = 100
\* issues: the call returned after three requests, ceil(201 / 100), for
\* the pages 1, 2 and 3.
C11_Witness ==
    /\ f_pc = "returned" /\ limit = 2 * PerPageCap + 1
    /\ per_page = PerPageCap
    /\ requested = <<1, 2, 3>>
    /\ \A i \in 1 .. Len(pages) :
         Len(pages[i]) = per_page /\ \A j \in 1 .. per_page : ~pages[i][j].key
    /\ Len(requested) = (limit + per_page - 1) \div per_page

RECURSIVE Concat(_)
\* The batches of ps one after the other, in the order of ps.
Concat(ps) == IF ps = << >> THEN << >> ELSE Head(ps) \o Concat(Tail(ps))

\* a is the beginning of b.
IsPrefix(a, b) ==
    /\ Len(a) <= Len(b)
    /\ \A i \in 1 .. Len(a) : a[i] = b[i]

\* The i-th batch returned is the server's page i, its items in the order
\* the server sent them, and a result is a prefix of their concatenation.
ResultIsPrefixOfPages ==
    /\ \A i \in 1 .. Len(pages) :
         /\ requested[i] = i
         /\ \A j \in 1 .. Len(pages[i]) :
              pages[i][j].page = i /\ pages[i][j].index = j
    /\ f_pc = "returned" => IsPrefix(returned, Concat(pages))

\* A page request after the first failed (the request layer gave up on it
\* or raised) or returned nothing.
FailedMidPagination ==
    /\ Len(requested) > 1
    /\ f_pc # "idle"
    /\ lastBatch.kind = "raised" \/ lastBatch.len = 0

\* C12: the result of get_issues is a prefix of the concatenation of the
\* pages it fetched, the i-th fetched page being page i of the server with
\* its items in the order the server sent them; and when a page request
\* after the first fails or returns nothing, get_issues stops there and
\* returns, without signalling an error, exactly the issues of the earlier
\* pages.
C12_ResultIsPrefixOfPages ==
    /\ ResultIsPrefixOfPages
    /\ FailedMidPagination
         => /\ f_pc \in {"exit", "returned"}
            /\ f_fault = "none"
            /\ f_pc = "exit" => ENABLED ReturnIssues
            /\ f_pc = "returned"
                 => returned = Concat(SubSeq(pages, 1,
                                             Len(requested) - 1))

\* What does hold: the result is such a prefix, and a page request after
\* the first that returns {} or an empty list ends the call with the
\* issues of the earlier pages; one that raises ends it with that fault.
PrefixUnlessRaised ==
    /\ ResultIsPrefixOfPages
    /\ Len(pages) = Len(requested) - (IF f_pc = "raised" THEN 1 ELSE 0)
    /\ FailedMidPagination
         => IF lastBatch.kind = "raised"
            THEN f_pc = "raised" /\ f_fault = "ValueError" /\ returned = << >>
            ELSE /\ f_pc \in {"exit", "returned"}
                 /\ f_fault = "none"
                 /\ f_pc = "exit" => ENABLED ReturnIssues
                 /\ f_pc = "returned"
                      => returned = Concat(SubSeq(pages, 1, Len(pages) - 1))

(***************************************************************************)
(* Texts, labels and issues.                                               *)
(*                                                                         *)
(* A text is run-length encoded: a sequence of runs [ch, n], n copies of   *)
(* the character ch, adjacent runs having different characters: "tick" is  *)
(* the backtick, "x" any character that is neither that nor white space.   *)
(***************************************************************************)
Run(ch, n) == [ch |-> ch, n |-> n]

RECURSIVE TextLen(_)
\* len(text)
TextLen(t) == IF t = << >> THEN 0 ELSE Head(t).n + TextLen(Tail(t))

RECURSIVE MarkerCount(_)
\* text.count of the fence marker (three backticks): occurrences that do
\* not overlap, so a run of n backticks holds n // 3 of them.
MarkerCount(t) ==
    IF t = << >> THEN 0
    ELSE (IF Head(t).ch = "tick" THEN Head(t).n \div 3 ELSE 0)
         + MarkerCount(Tail(t))

\* str.lower() on the label names and keywords of the model.
LowerOf ==
    ("Bug" :> "bug") @@ ("Help Wanted" :> "help wanted")
    @@ ("Python" :> "python") @@ ("Docs" :> "docs")
Lower(str) == IF str \in DOMAIN LowerOf THEN LowerOf[str] ELSE str

\* needle in hay, for the lower-case label names of the model.
ProperSubstrings ==
    {<<"beginner", "beginner-friendly">>, <<"bug", "debugger">>,
     <<"docs", "api docs">>}
Contains(needle, hay) == needle = hay \/ <<needle, hay>> \in ProperSubstrings

\* The body of an issue: the key is missing, its value is null (what the
\* server sends for an issue without a description), or it is a text.
NoBodyKey == [kind |-> "absent", text |-> << >>]
NullBody == [kind |-> "null", text |-> << >>]
Body(t) == [kind |-> "text", text |-> t]

\* issue.get('body'): falsy for a missing key, null and the empty text.
BodyTruthy(b) == b.kind = "text" /\ b.text # << >>

Issue(num, created, ncomments, labels, mentions, body, assignees) ==
    [number |-> num, created_at |-> created, comments |-> ncomments,
     labels |-> labels, mentions |-> mentions, body |-> body,
     assignees |-> assignees]

\* The issues a server may return.  created_at is the UTC time the issue
\* was created at, in hours before the run; mentions are the lower-case
\* keywords that occur in title + ' ' + body.
IssuePool ==
    { Issue(1, 240, 3, <<"bug", "good first issue">>, {},
            Body(<<Run("x", 100)>>), {"alice"}),
      Issue(2, 1, 5, <<"Help Wanted", "beginner-friendly">>, {"python"},
            Body(<<Run("x", 400)>>), {}),
      Issue(3, 73, 0, << >>, {}, NullBody, {"alice", "bob"}),
      Issue(4, 492, 1, <<"enhancement">>, {"python"}, NoBodyKey, {}),
      Issue(5, 53, 4, <<"Bug", "api docs">>, {"python", "rust"},
            Body(<<Run("x", 50), Run("tick", 3), Run("x", 41), Run("tick", 6)>>),
            {"bob"}),
      Issue(6, 983, 0, <<"debugger">>, {},
            Body(<<Run("x", 1600), Run("tick", 3)>>), {}),
      Issue(7, 171, 1, << >>, {}, NoBodyKey, {}) }

\* The sequences of at most n different elements of set.
RECURSIVE SeqsUpTo(_, _)
SeqsUpTo(set, n) ==
    IF n = 0 THEN {<< >>}
    ELSE LET shorter == SeqsUpTo(set, n - 1)
         IN shorter \cup
            {Append(q, x) : <<q, x>> \in
                {<<q, x>> \in shorter \X set :
                    /\ Len(q) = n - 1
                    /\ \A i \in 1 .. Len(q) : q[i] # x}}

Range(seq) == {seq[i] : i \in 1 .. Len(seq)}

(***************************************************************************)
(* The configuration file mcp_config.json.                                 *)
(***************************************************************************)
Config(sections, repository, expertise, high, medium, types) ==
    [sections |-> sections, repository |-> repository,
     user_expertise |-> expertise, high |-> high, medium |-> medium,
     issue_types |-> types]

\* {}
EmptyConfig == Config({}, "none", << >>, << >>, << >>, << >>)

FullConfig ==
    Config({"github", "agent", "actions"}, "owner/configured",
           <<"Python">>, <<"bug">>, <<"enhancement">>, <<"Docs">>)

\* Only the label priorities are configured.
LabelConfig ==
    Config({"github"}, "none", << >>, <<"bug">>, << >>, << >>)

\* A dict is truthy when it is not empty.
Truthy(cfg) == cfg.sections # {}

\* What the file holds: nothing (it is missing), text that is not JSON, or
\* a JSON object.
File(state, cfg) == [state |-> state, json |-> cfg]
FileContents ==
    {File("missing", EmptyConfig), File("unparsable", EmptyConfig)}
    \cup {File("json", c) : c \in {EmptyConfig, LabelConfig, FullConfig}}

\* try: config = json.load(f)
\* except (FileNotFoundError, json.JSONDecodeError): config = {}
LoadOrEmpty(file) == IF file.state = "json" THEN file.json ELSE EmptyConfig

(***************************************************************************)
(* Python floats.  The scores are IEEE 754 doubles, and every operation on *)
(* them rounds its exact result to the nearest double, a tie going to the  *)
(* double whose last bit is 0.  Every number the prioritization engine     *)
(* computes is a multiple of 2^-59 that lies next to a multiple of 0.01,   *)
(* so a float is kept as the pair [c, r] that stands for                   *)
(*     c / 100 + r / (100 * 2^59),                                         *)
(* c the hundredths and r what the rounding has added to them; r is small, *)
(* and different pairs are different numbers.  A grain is the unit of r,   *)
(* 2^-59 / 100.                                                            *)
(***************************************************************************)
GrainBits == 59

Float(c, r) == [c |-> c, r |-> r]

\* float(k) for an integer k
FromInt(k) == Float(100 * k, 0)

\* The literals 0.3, 1.5 and 0.01: the doubles nearest to them are
\* 0.3 - 0.2 * 2^-54, 1.5 and 0.01 + 0.12 * 2^-59.
Lit0_3 == Float(30, -640)
Lit1_5 == Float(150, 0)
Lit0_01 == Float(1, 12)

RECURSIVE Doubled(_, _, _)
\* start doubled k times, modulo m
Doubled(start, k, m) ==
    IF k = 0 THEN start % m ELSE (2 * Doubled(start, k - 1, m)) % m

\* 2^k, for the k whose power a machine integer holds
Pow2Table == [k \in 0 .. 30 |-> Doubled(1, k, 2147483647)]
Pow2(k) == Pow2Table[k]

\* 2^k modulo 100
Pow2Mod100Table == [k \in 0 .. GrainBits |-> Doubled(1, k, 100)]
Pow2Mod100(k) == Pow2Mod100Table[k]

Neg(x) == Float(-x.c, -x.r)
IsNeg(x) == x.c < 0 \/ (x.c = 0 /\ x.r < 0)

\* x < y and x <= y
FLess(x, y) == x.c < y.c \/ (x.c = y.c /\ x.r < y.r)
FLeq(x, y) == x.c < y.c \/ (x.c = y.c /\ x.r <= y.r)

\* 2^j <= x, for x > 0
AtLeastPow2(x, j) ==
    IF j >= 0
    THEN x.c > 100 * Pow2(j) \/ (x.c = 100 * Pow2(j) /\ x.r >= 0)
    ELSE x.c * Pow2(-j) > 100 \/ (x.c * Pow2(-j) = 100 /\ x.r >= 0)

\* The scores and penalties of the model lie between 0.01 and
\* 2^(MaxBinade + 1), which is as far as
\* machine integers hold them in hundredths.
MaxBinade == 24

RECURSIVE BinadeIn(_, _, _)
\* The largest j of lo .. hi with 2^j <= x, given that 2^lo <= x
BinadeIn(x, lo, hi) ==
    IF lo = hi THEN lo
    ELSE LET mid == (lo + hi + 1) \div 2
         IN IF AtLeastPow2(x, mid) THEN BinadeIn(x, mid, hi)
            ELSE BinadeIn(x, lo, mid - 1)

\* The exponent of x >= 0.01: 2^j <= x < 2^(j + 1)
Binade(x) == BinadeIn(x, -7, MaxBinade)

\* The double nearest to the exact number x >= 0.  The doubles of the
\* binade j are 2^(j - 52) apart, which is grid = 100 * 2^(j + 7) grains;
\* below 0.01 the numbers of the model are doubles already.
RoundPos(x) ==
    IF x.c = 0 THEN x
    ELSE LET k == Binade(x) + 7
             grid == 100 * Pow2(k)
             \* x in grains, modulo 2 * grid
             rem2 == ( Pow2(k + 1)
                         * (((x.c % 100) * Pow2Mod100(GrainBits - (k + 1))) % 100)
                       + x.r ) % (2 * grid)
             low == rem2 % grid
             odd == rem2 >= grid
             up == 2 * low > grid \/ (2 * low = grid /\ odd)
         IN Float(x.c, x.r + (IF up THEN grid - low ELSE -low))

\* The double nearest to the exact number x.
Round(x) == IF IsNeg(x) THEN Neg(RoundPos(Neg(x))) ELSE RoundPos(x)

\* x + y on floats; x - y is x + (-y)
FAdd(x, y) == Round(Float(x.c + y.c, x.r + y.r))

\* n * x for an integer n and a float x
FMulInt(n, x) == Round(Float(n * x.c, n * x.r))

(***************************************************************************)
(* The prioritization engine: prioritize_issues.                           *)
(***************************************************************************)
\* labels = [label['name'].lower() for label in issue.get('labels', [])]
LowerLabels(issue) == [i \in 1 .. Len(issue.labels) |-> Lower(issue.labels[i])]

\* any(needle in label for label in labels)
AnyLabelHas(labels, needle) ==
    \E i \in 1 .. Len(labels) : Contains(needle, labels[i])

\* any(x.lower() in label for x in configured)
AnyConfiguredIn(configured, label) ==
    \E i \in 1 .. Len(configured) : Contains(Lower(configured[i]), label)

LabelScore(labels, cfg) ==
    10 * Cardinality({i \in 1 .. Len(labels) :
                        AnyConfiguredIn(cfg.high, labels[i])})
    + 5 * Cardinality({i \in 1 .. Len(labels) :
                         AnyConfiguredIn(cfg.medium, labels[i])})

ContributorScore(labels) ==
    (IF AnyLabelHas(labels, "good first issue") THEN 15 ELSE 0)
    + (IF AnyLabelHas(labels, "help wanted") THEN 10 ELSE 0)
    + (IF AnyLabelHas(labels, "beginner") THEN 8 ELSE 0)

\* expertise.lower() in issue_text, for each configured expertise
ExpertiseScore(issue, cfg) ==
    5 * Cardinality({i \in 1 .. Len(cfg.user_expertise) :
                       Lower(cfg.user_expertise[i]) \in issue.mentions})

PreferenceScore(labels, cfg) ==
    8 * Cardinality({i \in 1 .. Len(cfg.issue_types) :
                       AnyLabelHas(labels, Lower(cfg.issue_types[i]))})

DescriptionLength(body) == IF BodyTruthy(body) THEN TextLen(body.text) ELSE 0
CodeBlockCount(body) ==
    IF BodyTruthy(body) THEN MarkerCount(body.text) \div 2 ELSE 0

\* (description_length * 0.01) + (code_block_count * 2)
ComplexityPenalty(body) ==
    FAdd(FMulInt(DescriptionLength(body), Lit0_01),
         FromInt(CodeBlockCount(body) * 2))

RECURSIVE SumFrom(_, _, _)
\* acc + terms[i] + terms[i + 1] + ..., each + rounded as it is taken
SumFrom(acc, terms, i) ==
    IF i > Len(terms) THEN acc
    ELSE SumFrom(FAdd(acc, terms[i]), terms, i + 1)

\* (datetime.now() - datetime.strptime(issue['created_at'], ...)).days:
\* created_at is a UTC time and is read as a local one, so the difference
\* is the time since the creation plus the offset of the local time, and
\* .days rounds it down to whole days.
HoursPerDay == 24
AgeDays(issue, offset) == (issue.created_at + offset) \div HoursPerDay

\* The formula of the specification's example: age 0.5, comments 2, and
\* 10 for a label that contains "bug".
PriorityScoreOfExample(issue, cfg, offset) ==
    SumFrom(FMulInt(AgeDays(issue, offset), Float(50, 0)),
            <<FMulInt(issue.comments, Float(200, 0)),
              FromInt(IF AnyLabelHas(LowerLabels(issue), "bug")
                      THEN 10 ELSE 0),
              Neg(ComplexityPenalty(issue.body))>>, 1)

\* age_days * 0.3 + comments_count * 1.5 + label_score + contributor_score
\* + expertise_score + preference_score - complexity_penalty, the sum
\* taken from left to right
PriorityScore(issue, cfg, offset) ==
    LET labels == LowerLabels(issue)
    IN SumFrom(FMulInt(AgeDays(issue, offset), Lit0_3),
               <<FMulInt(issue.comments, Lit1_5),
                 FromInt(LabelScore(labels, cfg)),
                 FromInt(ContributorScore(labels)),
                 FromInt(ExpertiseScore(issue, cfg)),
                 FromInt(PreferenceScore(labels, cfg)),
                 Neg(ComplexityPenalty(issue.body))>>, 1)

\* 'High' if complexity_penalty > 15 else 'Medium' if > 5 else 'Low'
ComplexityEstimate(penalty) ==
    IF FLess(FromInt(15), penalty) THEN "High"
    ELSE IF FLess(FromInt(5), penalty) THEN "Medium" ELSE "Low"

\* The issue with the fields prioritize_issues adds to it.
Annotated(issue, cfg, offset) ==
    [issue |-> issue,
     priority_score |-> PriorityScore(issue, cfg, offset),
     expertise_match |-> ExpertiseScore(issue, cfg) > 0,
     contributor_friendly |-> ContributorScore(LowerLabels(issue)) > 0,
     complexity_estimate |-> ComplexityEstimate(ComplexityPenalty(issue.body))]

\* sorted(prioritized, key = priority_score, reverse = True): stable, so
\* each element goes behind the earlier ones whose score is not smaller.
RECURSIVE InsertDesc(_, _)
InsertDesc(sorted, x) ==
    IF sorted = << >> THEN <<x>>
    ELSE IF FLeq(x.priority_score, Head(sorted).priority_score)
         THEN <<Head(sorted)>> \o InsertDesc(Tail(sorted), x)
         ELSE <<x>> \o sorted

RECURSIVE SortDesc(_)
SortDesc(seq) ==
    IF seq = << >> THEN << >>
    ELSE InsertDesc(SortDesc(SubSeq(seq, 1, Len(seq) - 1)), seq[Len(seq)])

\* issue.get('title', '') + ' ' + issue.get('body', ''): a body that is
\* null is not a str, and the concatenation raises TypeError.
ConcatRaises(body) == body.kind = "null"

Returned(v) == [fault |-> "none", value |-> v]
Raised(kind) == [fault |-> kind, value |-> << >>]

\* prioritize_issues(issues), the configuration file holding cfg and the
\* local time being offset hours ahead of UTC
PrioritizeIssues(list, cfg, offset) ==
    IF \E i \in 1 .. Len(list) : ConcatRaises(list[i].body)
    THEN Raised("TypeError")
    ELSE Returned(SortDesc([i \in 1 .. Len(list) |->
                              Annotated(list[i], cfg, offset)]))

(***************************************************************************)
(* The recommendation filter of main().                                    *)
(***************************************************************************)
BothFlags(a) == a.contributor_friendly /\ a.expertise_match
Friendly(a) == a.contributor_friendly

\* The filter without its last fallback.
RecommendWithoutLastTier(list) ==
    IF SelectSeq(list, BothFlags) # << >>
    THEN SelectSeq(list, BothFlags)
    ELSE SelectSeq(list, Friendly)

Recommend(list) ==
    IF SelectSeq(list, BothFlags) # << >>
    THEN SelectSeq(list, BothFlags)
    ELSE IF SelectSeq(list, Friendly) # << >>
         THEN SelectSeq(list, Friendly)
         ELSE list

(***************************************************************************)
(* The issue analyzer: analyze_issue.                                      *)
(***************************************************************************)
\* "High" above 500 characters or 4 fence markers, "Medium" above 200
\* characters or 2 fence markers, else "Low".
ComplexityWithAnd(description_length, code_blocks) ==
    IF description_length > 500 /\ code_blocks > 4 THEN "High"
    ELSE IF description_length > 200 /\ code_blocks > 2 THEN "Medium"
    ELSE "Low"

Complexity(description_length, code_blocks) ==
    IF description_length > 500 \/ code_blocks > 4 THEN "High"
    ELSE IF description_length > 200 \/ code_blocks > 2 THEN "Medium"
    ELSE "Low"

RECURSIVE MarkersIn(_)
\* The fence markers in ' '.join(comment bodies): the blanks between the
\* bodies keep the backticks of two comments apart.
MarkersIn(bodies) ==
    IF bodies = << >> THEN 0
    ELSE MarkerCount(Head(bodies)) + MarkersIn(Tail(bodies))

\* What _make_request returned for the issue: {} (the issue does not exist
\* or the request failed), or the issue.
NoIssue == [found |-> FALSE, body |-> NoBodyKey]
FoundIssue(body) == [found |-> TRUE, body |-> body]

\* What _make_request returned for the comments: {} or the list.
NoComments == [failed |-> TRUE, bodies |-> << >>]
Comments(bodies) == [failed |-> FALSE, bodies |-> bodies]

NoAnalysis ==
    [kind |-> "none", comments_count |-> 0, complexity |-> "none",
     description_length |-> 0, code_blocks |-> 0]

\* {"error": f"Issue #{issue_number} not found"}
NotFoundError ==
    [kind |-> "error", comments_count |-> 0, complexity |-> "none",
     description_length |-> 0, code_blocks |-> 0]

\* analyze_issue(issue_number), the server answering with resp and cmts.
\* issue.get('body', '') + ' ' + ...  raises TypeError on a null body.
AnalyzeIssue(resp, cmts) ==
    IF ~resp.found THEN Returned(NotFoundError)
    ELSE IF ConcatRaises(resp.body) THEN Raised("TypeError")
    ELSE LET description_length == TextLen(resp.body.text)
             code_blocks == MarkerCount(resp.body.text) + MarkersIn(cmts.bodies)
         IN Returned([kind |-> "record",
                      comments_count |-> Len(cmts.bodies),
                      complexity |-> Complexity(description_length, code_blocks),
                      description_length |-> description_length,
                      code_blocks |-> code_blocks])

\* The bodies of the issue analyze_issue may be given.
AnalysisBodies ==
    {NoBodyKey, NullBody}
    \cup {Body(<<Run("x", n)>>) : n \in {50, 200, 201, 500, 501, 600}}
    \cup {Body(<<Run("x", 100), Run("tick", 3), Run("x", 147)>>),
          Body(<<Run("tick", 15)>>)}

CommentBodies ==
    {<<Run("x", 10)>>, <<Run("tick", 3), Run("x", 5), Run("tick", 3)>>,
     <<Run("tick", 9)>>}

RECURSIVE ListsUpTo(_, _)
\* The sequences of at most n elements of set.
ListsUpTo(set, n) ==
    IF n = 0 THEN {<< >>}
    ELSE LET shorter == ListsUpTo(set, n - 1)
         IN shorter \cup {Append(q, x) : <<q, x>> \in shorter \X set}

(***************************************************************************)
(* One run of main().  The issue lists stand for the issues the server    *)
(* holds, fewer than a page of them; a call of get_issues returns them or  *)
(* raises what the request layer raised (FetchSpec).  --config is not      *)
(* given, so main and prioritize_issues read the same file.                *)
(***************************************************************************)
Actions == {"list", "prioritize", "recommend", "assigned", "analyze"}

\* The values of --limit: 10 when the option is not given.
DefaultLimit == 10
ArgLimits == {-1, 0, 1, DefaultLimit}

\* repo, username, issue: whether the option is given; expertise: the
\* keywords of --expertise, none when the option is not given.  The runs
\* give --username and --issue with the actions that read them, and --limit
\* with list and assigned: with prioritize and recommend it only shortens
\* what is printed.
ArgSets ==
    [repo : BOOLEAN, expertise : {<< >>, <<"python">>}, action : Actions,
     username : BOOLEAN, issue : BOOLEAN, limit : ArgLimits]

\* The time zones the process may run in: local time less UTC, in hours.
\* The runs leave UTC with the actions that compute an age, prioritize
\* and recommend.
UtcOffsets == {-8, 0, 9}

\* The user --username names.
TheUser == "alice"

Unbound == [bound |-> FALSE, value |-> EmptyConfig]
Bound(cfg) == [bound |-> TRUE, value |-> cfg]

NoFault == [kind |-> "none", where |-> "none"]
Fault(kind, where) == [kind |-> kind, where |-> where]

\* What analyze_issue's two requests came to: raised tells that the request
\* layer raised on one of them.
NoRequest ==
    [made |-> FALSE, raised |-> FALSE, issue |-> NoIssue,
     comments |-> NoComments]
Answered(resp, cmts) ==
    [made |-> TRUE, raised |-> FALSE, issue |-> resp, comments |-> cmts]
RequestRaised ==
    [made |-> TRUE, raised |-> TRUE, issue |-> NoIssue,
     comments |-> NoComments]

\* get_issues(limit = lim) against a server that holds list: for lim <= 0
\* the loop is not entered and no request is made.
Fetch(list, lim) == IF lim > 0 THEN Truncate(list, lim) ELSE << >>

\* get_issues(limit = 100) as prioritize, recommend and assigned call it
FetchLimit == 100

\* config.get('github', {}).get('repository')
RepositoryOf(cfg) ==
    IF "github" \in cfg.sections THEN cfg.repository ELSE "none"

\* config['agent']['user_expertise'] = args.expertise
WithExpertise(cfg, expertise) ==
    [cfg EXCEPT !.sections = @ \cup {"agent"}, !.user_expertise = expertise]

IssueLists == SeqsUpTo(IssuePool, MaxIssues)

\* issue.get('body', 'No description provided')[:300]: a null body cannot
\* be sliced, and display_issue_summary raises TypeError.
DisplayRaises(list) == \E i \in 1 .. Len(list) : list[i].body.kind = "null"

Init ==
    /\ IdleReq /\ IdleFetch
    /\ m_pc = "start"
    /\ args \in {a \in ArgSets :
                   /\ a.username => a.action = "assigned"
                   /\ a.issue => a.action = "analyze"
                   /\ a.limit # DefaultLimit
                        => a.action \in {"list", "assigned"}}
    /\ utcOffset \in UtcOffsets
    /\ utcOffset # 0 => args.action \in {"prioritize", "recommend"}
    /\ cfgFile \in FileContents
    /\ config = Unbound
    /\ repo = "none"
    /\ fault = NoFault
    /\ fetched = << >>
    /\ prioritized = << >>
    /\ prioCfg = EmptyConfig
    /\ recommended = << >>
    /\ assigned = << >>
    /\ request = NoRequest
    /\ analysis = NoAnalysis

\* Load configuration: config is assigned only when the file is read and
\* parsed; without a repository the run ends with sys.exit(1).
LoadConfig ==
    /\ m_pc = "start"
    /\ IF cfgFile.state = "json"
       THEN /\ config' = Bound(cfgFile.json)
            /\ repo' = IF args.repo THEN "owner/cli"
                       ELSE RepositoryOf(cfgFile.json)
       ELSE /\ UNCHANGED config
            /\ repo' = IF args.repo THEN "owner/cli" ELSE "none"
    /\ m_pc' = IF repo' = "none" THEN "exited" ELSE "loaded"
    /\ UNCHANGED <<args, utcOffset, cfgFile, fault, fetched, prioritized, prioCfg,
                   recommended, assigned, request, analysis>>
    /\ UNCHANGED exceptMain

\* agent = GitHubMCPAgent(args.repo, args.token): _verify_connection ends
\* the run with sys.exit(1) when the repository cannot be reached.
InitAgent ==
    /\ m_pc = "loaded"
    /\ \E ok \in BOOLEAN : m_pc' = IF ok THEN "connected" ELSE "exited"
    /\ UNCHANGED <<args, utcOffset, cfgFile, config, repo, fault, fetched,
                   prioritized,
                   prioCfg, recommended, assigned, request, analysis>>
    /\ UNCHANGED exceptMain

\* What is left of the file when main rewrites it with cfg: the new
\* content; the old one when open(config_path, 'w') fails; and text that
\* is not JSON when json.dump fails after open has truncated the file.
Rewritten(file, cfg) ==
    {File("json", cfg), file, File("unparsable", EmptyConfig)}

\* if args.expertise and config: reading config when it was never assigned
\* raises UnboundLocalError; otherwise the expertise is stored and the file
\* rewritten (a failure to write is only a warning).
UpdateExpertise ==
    /\ m_pc = "connected"
    /\ IF args.expertise = << >>
       THEN m_pc' = "ready" /\ UNCHANGED <<config, cfgFile, fault>>
       ELSE IF ~config.bound
       THEN /\ m_pc' = "crashed"
            /\ fault' = Fault("UnboundLocalError", "main")
            /\ UNCHANGED <<config, cfgFile>>
       ELSE IF Truthy(config.value)
       THEN /\ config' = Bound(WithExpertise(config.value, args.expertise))
            /\ cfgFile' \in Rewritten(cfgFile, config'.value)
            /\ m_pc' = "ready"
            /\ UNCHANGED fault
       ELSE m_pc' = "ready" /\ UNCHANGED <<config, cfgFile, fault>>
    /\ UNCHANGED <<args, utcOffset, repo, fetched, prioritized, prioCfg, recommended,
                   assigned, request, analysis>>
    /\ UNCHANGED exceptMain

\* The request layer raised under get_issues, which main does not catch.
RequestFault == Fault("ValueError", "_make_request")

\* --action list: get_issues(limit = args.limit), every issue displayed
DoList ==
    /\ m_pc = "ready" /\ args.action = "list"
    /\ \/ /\ args.limit > 0
          /\ m_pc' = "crashed"
          /\ fault' = RequestFault
          /\ UNCHANGED fetched
       \/ \E list \in IssueLists :
            /\ fetched' = Fetch(list, args.limit)
            /\ IF DisplayRaises(fetched')
               THEN /\ m_pc' = "crashed"
                    /\ fault' = Fault("TypeError", "display_issue_summary")
               ELSE m_pc' = "finished" /\ UNCHANGED fault
    /\ UNCHANGED <<args, utcOffset, cfgFile, config, repo, prioritized, prioCfg,
                   recommended, assigned, request, analysis>>
    /\ UNCHANGED exceptMain

\* --action prioritize: prioritized[:args.limit] is displayed, which raises
\* nothing once prioritize_issues has returned.
DoPrioritize ==
    /\ m_pc = "ready" /\ args.action = "prioritize"
    /\ \/ /\ m_pc' = "crashed"
          /\ fault' = RequestFault
          /\ UNCHANGED <<fetched, prioritized, prioCfg>>
       \/ /\ prioCfg' = LoadOrEmpty(cfgFile)
          /\ \E list \in IssueLists :
               LET r == PrioritizeIssues(Fetch(list, FetchLimit),
                                         LoadOrEmpty(cfgFile), utcOffset) IN
               /\ fetched' = Fetch(list, FetchLimit)
               /\ IF r.fault # "none"
                  THEN /\ m_pc' = "crashed"
                       /\ fault' = Fault(r.fault, "prioritize_issues")
                       /\ UNCHANGED prioritized
                  ELSE /\ prioritized' = r.value
                       /\ m_pc' = "finished"
                       /\ UNCHANGED fault
    /\ UNCHANGED <<args, utcOffset, cfgFile, config, repo, recommended, assigned,
                   request, analysis>>
    /\ UNCHANGED exceptMain

\* --action recommend: recommended[:args.limit] is displayed
DoRecommend ==
    /\ m_pc = "ready" /\ args.action = "recommend"
    /\ \/ /\ m_pc' = "crashed"
          /\ fault' = RequestFault
          /\ UNCHANGED <<fetched, prioritized, prioCfg, recommended>>
       \/ /\ prioCfg' = LoadOrEmpty(cfgFile)
          /\ \E list \in IssueLists :
               LET r == PrioritizeIssues(Fetch(list, FetchLimit),
                                         LoadOrEmpty(cfgFile), utcOffset) IN
               /\ fetched' = Fetch(list, FetchLimit)
               /\ IF r.fault # "none"
                  THEN /\ m_pc' = "crashed"
                       /\ fault' = Fault(r.fault, "prioritize_issues")
                       /\ UNCHANGED <<prioritized, recommended>>
                  ELSE /\ prioritized' = r.value
                       /\ recommended' = Recommend(r.value)
                       /\ m_pc' = "finished"
                       /\ UNCHANGED fault
    /\ UNCHANGED <<args, utcOffset, cfgFile, config, repo, assigned, request,
                   analysis>>
    /\ UNCHANGED exceptMain

\* --action assigned: get_assigned_issues(args.username), then
\* assigned[:args.limit] is displayed
DoAssigned ==
    /\ m_pc = "ready" /\ args.action = "assigned"
    /\ IF ~args.username
       THEN m_pc' = "exited" /\ UNCHANGED <<fetched, assigned, fault>>
       ELSE \/ /\ m_pc' = "crashed"
               /\ fault' = RequestFault
               /\ UNCHANGED <<fetched, assigned>>
            \/ \E list \in IssueLists :
                 LET mine(i) == TheUser \in i.assignees IN
                 /\ fetched' = Fetch(list, FetchLimit)
                 /\ assigned' = SelectSeq(fetched', mine)
                 /\ IF DisplayRaises(Truncate(assigned', args.limit))
                    THEN /\ m_pc' = "crashed"
                         /\ fault' = Fault("TypeError",
                                           "display_issue_summary")
                    ELSE m_pc' = "finished" /\ UNCHANGED fault
    /\ UNCHANGED <<args, utcOffset, cfgFile, config, repo, prioritized, prioCfg,
                   recommended, request, analysis>>
    /\ UNCHANGED exceptMain

\* --action analyze: analyze_issue(args.issue); the comments are requested
\* only when the issue was found, and a fault the request layer raises on
\* either request is not caught.
DoAnalyze ==
    /\ m_pc = "ready" /\ args.action = "analyze"
    /\ IF ~args.issue
       THEN m_pc' = "exited" /\ UNCHANGED <<request, analysis, fault>>
       ELSE \/ /\ request' = RequestRaised
               /\ m_pc' = "crashed"
               /\ fault' = RequestFault
               /\ UNCHANGED analysis
            \/ \E resp \in {NoIssue}
                            \cup {FoundIssue(b) : b \in AnalysisBodies},
                  cmts \in {NoComments}
                           \cup {Comments(l) :
                                   l \in ListsUpTo(CommentBodies,
                                                   MaxComments)} :
                 LET r == AnalyzeIssue(resp, cmts) IN
                 /\ ~resp.found => cmts = NoComments
                 /\ request' = Answered(resp, cmts)
                 /\ IF r.fault # "none"
                    THEN /\ m_pc' = "crashed"
                         /\ fault' = Fault(r.fault, "analyze_issue")
                         /\ UNCHANGED analysis
                    ELSE /\ analysis' = r.value
                         /\ m_pc' = IF r.value.kind = "error" THEN "exited"
                                    ELSE "finished"
                         /\ UNCHANGED fault
    /\ UNCHANGED <<args, utcOffset, cfgFile, config, repo, fetched, prioritized,
                   prioCfg, recommended, assigned>>
    /\ UNCHANGED exceptMain

Next ==
    \/ LoadConfig
    \/ InitAgent
    \/ UpdateExpertise
    \/ DoList
    \/ DoPrioritize
    \/ DoRecommend
    \/ DoAssigned
    \/ DoAnalyze

Spec == Init /\ [][Next]_vars

(***************************************************************************)
(* Claims about the run of main(), checked under Spec.                     *)
(***************************************************************************)
\* prioritize_issues was called and either returned or raised.
PrioritizeCalled ==
    /\ args.action \in {"prioritize", "recommend"}
    /\ \/ m_pc = "finished"
       \/ m_pc = "crashed" /\ fault.where = "prioritize_issues"

\* The position of issue i in the list main fetched.
FetchedAt(i) == CHOOSE k \in 1 .. Len(fetched) : fetched[k] = i

\* out holds the issues of the fetched list, each once.
IsPermutationOfFetched(out) ==
    /\ Len(out) = Len(fetched)
    /\ {out[k].issue : k \in 1 .. Len(out)} = Range(fetched)

NonIncreasing(out) ==
    \A j, k \in 1 .. Len(out) :
        j < k => FLeq(out[k].priority_score, out[j].priority_score)

TiesKeepFetchOrder(out) ==
    \A j, k \in 1 .. Len(out) :
        (j < k /\ out[j].priority_score = out[k].priority_score)
            => FetchedAt(out[j].issue) < FetchedAt(out[k].issue)

\* C5: for all issue sequences, issues with or without a body,
\* prioritize_issues returns a permutation of its input with non-increasing
\* priority_score in which issues of equal score keep their input order.
C5_StableDescendingPermutation ==
    PrioritizeCalled =>
        /\ fault = NoFault
        /\ IsPermutationOfFetched(prioritized)
        /\ NonIncreasing(prioritized)
        /\ TiesKeepFetchOrder(prioritized)

\* What does hold: whenever prioritize_issues returns, which it does when
\* no issue has a null body, its result is such a permutation.
PrioritizeSortsWhenItReturns ==
    (PrioritizeCalled /\ fault = NoFault) =>
        /\ IsPermutationOfFetched(prioritized)
        /\ NonIncreasing(prioritized)
        /\ TiesKeepFetchOrder(prioritized)
        /\ \A k \in 1 .. Len(fetched) : fetched[k].body.kind # "null"

\* C6: the recommend action selects, in prioritized order, exactly the
\* issues with both flags if there are any, otherwise exactly the
\* contributor-friendly ones if there are any, otherwise the whole
\* prioritized list; the selection is empty only if that list is empty.
C6_TieredFallback ==
    (m_pc = "finished" /\ args.action = "recommend") =>
        LET all == Range(prioritized)
            both == {a \in all : a.contributor_friendly /\ a.expertise_match}
            friendly == {a \in all : a.contributor_friendly}
            selected(a) == a \in Range(recommended)
        IN /\ recommended = SelectSeq(prioritized, selected)
           /\ Range(recommended) = IF both # {} THEN both
                                   ELSE IF friendly # {} THEN friendly
                                   ELSE all
           /\ recommended = << >> => prioritized = << >>

\* A run whose selection is the first tier, and a proper part of both the
\* contributor-friendly issues and the prioritized list.
C6_Witness ==
    /\ m_pc = "finished" /\ args.action = "recommend"
    /\ Len(recommended) = 1 /\ Len(prioritized) = 3
    /\ recommended[1].expertise_match
    /\ \E k \in 1 .. 3 : /\ prioritized[k].contributor_friendly
                         /\ ~prioritized[k].expertise_match

\* analyze_issue was called and either returned or raised.
AnalyzeCalled == request.made

\* C7: for every server response, analyze_issue returns the analysis
\* record or the not-found error, the not-found error whenever the issue
\* fetch yields no data, and raises nothing.
C7_AnalyzeNeverRaises ==
    AnalyzeCalled =>
        /\ fault = NoFault
        /\ analysis.kind \in {"record", "error"}
        /\ ~request.issue.found => analysis.kind = "error"

\* What does hold: analyze_issue raises on a null body and when the request
\* layer raises, on nothing else, and a missing issue gives the not-found
\* error.
AnalyzeRaisesOnNullBodyOnly ==
    AnalyzeCalled =>
        /\ fault # NoFault <=> \/ request.raised
                               \/ /\ request.issue.found
                                  /\ request.issue.body.kind = "null"
        /\ (~request.raised /\ ~request.issue.found)
             => analysis.kind = "error"

Rank(class) == CASE class = "Low" -> 1 [] class = "Medium" -> 2
                 [] class = "High" -> 3

\* The body lengths complexity is compared on.
GridLengths == {0, 50, 199, 200, 201, 250, 499, 500, 501, 600}

\* C8: the complexity class of an analysis never falls when the body gets
\* longer or the fence markers more; 600 characters and no fence is High,
\* 250 characters and one fence is Medium, 50 characters and no fence Low.
C8_ComplexityMonotonic ==
    analysis.kind = "record" =>
        LET len == analysis.description_length
            markers == analysis.code_blocks
        IN /\ \A l2 \in GridLengths, m2 \in 0 .. MaxMarkers :
                /\ (l2 >= len /\ m2 >= markers)
                     => Rank(Complexity(l2, m2)) >= Rank(analysis.complexity)
                /\ (l2 <= len /\ m2 <= markers)
                     => Rank(Complexity(l2, m2)) <= Rank(analysis.complexity)
           /\ (len = 600 /\ markers = 0) => analysis.complexity = "High"
           /\ (len = 250 /\ markers = 1) => analysis.complexity = "Medium"
           /\ (len = 50 /\ markers = 0) => analysis.complexity = "Low"

\* The analysis of an issue of 250 characters with one fence marker.
C8_Witness ==
    /\ m_pc = "finished" /\ analysis.kind = "record"
    /\ analysis.description_length = 250 /\ analysis.code_blocks = 1
    /\ analysis.complexity = "Medium"

\* C9: with the configuration file missing or unparsable and --repo given,
\* no run faults because of the missing file, whatever the action and the
\* options, --expertise included.
C9_MissingFileTolerated ==
    (cfgFile.state # "json" /\ args.repo) =>
        ~(m_pc = "crashed" /\ fault.where = "main")

\* What does hold: without --expertise the missing file is tolerated, and
\* with it every run that reaches the repository raises UnboundLocalError.
\* (config is unbound when the file main read was missing or unparsable.)
MissingFileFaultsWithExpertiseOnly ==
    (~config.bound /\ args.repo) =>
        /\ args.expertise = << >> => fault.where # "main"
        /\ (args.expertise # << >> /\ m_pc \notin {"start", "loaded",
                                                  "connected", "exited"})
             => fault = Fault("UnboundLocalError", "main")

\* The issue of the example: created 10 days ago to the hour, 3 comments, labels "bug"
\* and "good first issue", a body of 100 characters without fences.
ExampleIssue ==
    Issue(1, 240, 3, <<"bug", "good first issue">>, {},
          Body(<<Run("x", 100)>>), {"alice"})

\* C10 as stated: the priority score of the example issue is 20.0.
C10_ExampleScores20 ==
    \A k \in 1 .. Len(prioritized) :
        prioritized[k].issue = ExampleIssue
            => prioritized[k].priority_score = Float(2000, 0)

\* C10 as amended: with an empty or missing configuration the priority
\* score of the example issue is 21.5 when the age the code computes is 10
\* days, that is 10 * 0.3 for the age, 3 * 1.5 for the comments, 15 for the
\* "good first issue" label, nothing for the "bug" label, less 1.0 for the
\* length.  The computed age is 10 days where the local time is UTC or
\* ahead of it and 9 days where it is behind UTC, and the score is then
\* 21.2 (the float 21.2 lies 40960 grains below the exact 21.2).
C10_ExampleScores21_5 ==
    \A k \in 1 .. Len(prioritized) :
        (prioritized[k].issue = ExampleIssue /\ prioCfg = EmptyConfig)
            => /\ AgeDays(ExampleIssue, utcOffset) \in {9, 10}
               /\ AgeDays(ExampleIssue, utcOffset) = 10
                    => prioritized[k].priority_score = Float(2150, 0)
               /\ AgeDays(ExampleIssue, utcOffset) = 9
                    => prioritized[k].priority_score = Float(2120, -40960)
               /\ utcOffset >= 0 => AgeDays(ExampleIssue, utcOffset) = 10
               /\ utcOffset < 0 => AgeDays(ExampleIssue, utcOffset) = 9

\* The example issue prioritized with the configuration file missing.
C10_Witness ==
    /\ m_pc = "finished" /\ cfgFile.state = "missing"
    /\ \E k \in 1 .. Len(prioritized) :
         /\ prioritized[k].issue = ExampleIssue
         /\ prioritized[k].priority_score = Float(2150, 0)

====
